---- MODULE Spec2Model ----
(***************************************************************************)
(* BufferedProducer<BufferType> of cppkafka                                *)
(* (include/cppkafka/utils/buffered_producer.h) as a state machine.        *)
(*                                                                         *)
(* The object's fields are modelled one to one.  The Producer it owns      *)
(* (librdkafka behind producer_) is the environment: it resolves topics,   *)
(* accepts or rejects produce() calls, and during poll() calls the         *)
(* delivery report callback once for each outcome it has ready.  flush()   *)
(* blocks inside the producer, so it is modelled as one activation with a  *)
(* program counter; add_message() is one atomic step.  Variables named     *)
(* "history" record what happened and are never read by the program.       *)
(***************************************************************************)
EXTENDS Integers, Sequences, FiniteSets, Bags, TLC

\* ---------------------------------------------------------------- bounds
\* add_message calls that reach the pending table's emplace
MaxMsgs == 3
\* flush calls
MaxFlush == 3
\* produce() calls answered RD_KAFKA_RESP_ERR__QUEUE_FULL
MaxQueueFull == 1
\* produce() calls answered with another HandleException
MaxFatal == 1
\* delivery reports carrying an error
MaxDeliveryFail == 2
\* producer_.get_topic calls that throw
MaxResolveFail == 1

\* topic names callers put in their builders
TopicNames == {"t1", "t2"}
\* the name used where the claims are about flush, not about the topic cache
FlushTopicNames == {"t1"}
MsgIds == 1..MaxMsgs
\* values an IndexType read can yield in the model; MaxMsgs is never a key
Tokens == 0..MaxMsgs

\* messages_.end()
END == -1

VARIABLES
    \* ---- fields of BufferedProducer
    messages_,        \* std::map<IndexType, Builder>: function token -> Builder
    failed_indexes_,  \* std::vector<IndexType>
    current_index_,   \* IndexType current_index_{0}
    topics_,          \* std::vector<Topic>
    topic_mapping_,   \* std::unordered_map<std::string, unsigned>
    \* ---- the Producer (environment): accepted messages with no report yet
    inflight,
    \* ---- the activation of flush()
    pc,               \* position of the caller's thread
    it,               \* iterator of "for (auto& message_pair : messages_)"
    fi,               \* position of "for (index : failed_indexes_)", 1-based
    fend,             \* the end() that range-for evaluated once
    dangling,         \* failed_indexes_ reallocated under that loop
    ctx,              \* which loop called produce_message: "init" | "retry"
                      \* ("none" before the first call of a flush)
    cur_index,        \* produce_message's parameter index
    local_builder,    \* produce_message's local_builder
    result,           \* how the last flush() call ended
    \* ---- history
    nEnq,             \* messages handed to add_message so far (message ids)
    assignedIndex,    \* per message id: the index do_add_message computed
                      \* for it (END before its add_message call)
    nFlush,           \* flush() calls so far
    submits,          \* per message id: produce() calls accepted
    fails,            \* per message id: delivery reports with an error
    acked,            \* message ids with a successful report of their own
    nQueueFull,       \* produce() calls answered queue-full
    nFatal,           \* produce() calls answered with another error
    resolveOk,        \* per topic name: producer_.get_topic calls that returned
    resolveFail,      \* per topic name: producer_.get_topic calls that threw
    callAttempts,     \* produce() calls of the current produce_message call
    callPolls,        \* poll() calls of the current produce_message call
    entryKeys,        \* keys of messages_ when the current flush() was entered
    attempted,        \* tokens handed to produce() in the current flush()
    okTokens,         \* tokens reported successful in the current flush()
    pendingRetry,     \* tokens recorded as failed in the current flush() and
                      \* not handed to produce() (or erased) since
    flushClean,       \* in the current flush() so far every produce() was
                      \* accepted and every report was a success
    lastReport        \* the delivery report of the step just taken, if any

fields == <<messages_, failed_indexes_, current_index_, topics_, topic_mapping_>>
activation == <<pc, it, fi, fend, dangling, ctx, cur_index, local_builder, result>>
counters == <<nEnq, assignedIndex, nFlush, submits, fails, acked, nQueueFull, nFatal, resolveOk,
              resolveFail>>
perCall == <<callAttempts, callPolls>>
perFlush == <<entryKeys, attempted, okTokens, pendingRetry, flushClean>>
vars == <<fields, inflight, activation, counters, perCall, perFlush, lastReport>>

NoReport == [index |-> END, id |-> 0, error |-> FALSE, found |-> FALSE]
NoBuilder == [id |-> 0, topic |-> ""]
EmptyMap == [t \in {} |-> NoBuilder]

RECURSIVE SumOver(_, _)
SumOver(f, S) ==
    IF S = {} THEN 0
    ELSE LET x == CHOOSE y \in S : TRUE IN f[x] + SumOver(f, S \ {x})

\* ------------------------------------------------------- std::map helpers
Keys(m) == DOMAIN m
Size(m) == Cardinality(DOMAIN m)

\* std::map::emplace: inserts only if the key is absent
Emplace(m, k, v) ==
    IF k \in DOMAIN m THEN m
    ELSE [t \in DOMAIN m \cup {k} |-> IF t = k THEN v ELSE m[t]]

\* std::map::erase(iterator)
Erase(m, k) == [t \in DOMAIN m \ {k} |-> m[t]]

Min(S) == CHOOSE x \in S : \A y \in S : x <= y

\* messages_.begin()
Begin(m) == IF DOMAIN m = {} THEN END ELSE Min(DOMAIN m)

\* ++iterator on an element that is still in the map
Succ(m, k) ==
    LET later == {t \in DOMAIN m : t > k}
    IN IF later = {} THEN END ELSE Min(later)

Init ==
    /\ messages_ = EmptyMap
    /\ failed_indexes_ = <<>>
    /\ current_index_ = 0
    /\ topics_ = <<>>
    /\ topic_mapping_ = [n \in {} |-> 0]
    /\ inflight = EmptyBag
    /\ pc = "idle"
    /\ it = END
    /\ fi = 1
    /\ fend = 0
    /\ dangling = FALSE
    /\ ctx = "none"
    /\ cur_index = 0
    /\ local_builder = NoBuilder
    /\ result = "none"
    /\ nEnq = 0
    /\ assignedIndex = [m \in MsgIds |-> END]
    /\ nFlush = 0
    /\ submits = [m \in MsgIds |-> 0]
    /\ fails = [m \in MsgIds |-> 0]
    /\ acked = {}
    /\ nQueueFull = 0
    /\ nFatal = 0
    /\ resolveOk = [n \in TopicNames |-> 0]
    /\ resolveFail = [n \in TopicNames |-> 0]
    /\ callAttempts = 0
    /\ callPolls = 0
    /\ entryKeys = {}
    /\ attempted = {}
    /\ okTokens = {}
    /\ pendingRetry = {}
    /\ flushClean = TRUE
    /\ lastReport = NoReport

\* ------------------------------------------------------------ add_message
\* variant: the lookup never finds the name
cache_hit_never(name) == FALSE

\* get_topic: topic_mapping_.find(topic) != topic_mapping_.end()
cache_hit(name) == name \in DOMAIN topic_mapping_

\* get_topic(name) when producer_.get_topic is not called or returns: the
\* fields topics_ and topic_mapping_ after the call.  The Topic the producer
\* returns for a name is modelled by the name.
get_topic_topics(name) ==
    IF cache_hit(name) THEN topics_ ELSE Append(topics_, name)

get_topic_mapping(name) ==
    IF cache_hit(name) THEN topic_mapping_
    ELSE [n \in DOMAIN topic_mapping_ \cup {name} |->
             IF n = name THEN Len(topics_) ELSE topic_mapping_[n]]

\* the Topic get_topic returns: topics_[iter->second]
get_topic_result(name) == get_topic_topics(name)[get_topic_mapping(name)[name] + 1]

\* do_add_message: the index the new entry is emplaced under
do_add_message_index == Size(messages_)

\* variant: add_message hands the message to produce() right away
add_message_sends(name) ==
    /\ pc = "idle"
    /\ nEnq < MaxMsgs
    /\ topics_' = get_topic_topics(name)
    /\ topic_mapping_' = get_topic_mapping(name)
    /\ resolveOk' = IF cache_hit(name) THEN resolveOk
                    ELSE [resolveOk EXCEPT ![name] = @ + 1]
    /\ messages_' = Emplace(messages_, do_add_message_index,
                            [id |-> nEnq + 1, topic |-> get_topic_result(name)])
    /\ inflight' = inflight (+) SetToBag({[index |-> do_add_message_index,
                      msg |-> [id |-> nEnq + 1, topic |-> get_topic_result(name)]]})
    /\ submits' = [submits EXCEPT ![nEnq + 1] = @ + 1]
    /\ nEnq' = nEnq + 1
    /\ assignedIndex' = [assignedIndex EXCEPT ![nEnq + 1] = do_add_message_index]
    /\ lastReport' = NoReport
    /\ UNCHANGED <<failed_indexes_, current_index_, activation,
                   nFlush, fails, acked, nQueueFull, nFatal, resolveFail,
                   perCall, perFlush>>

\* add_message(builder) with the builder's topic name; get_topic hits the
\* cache or the producer resolves the name
add_message(name) ==
    /\ pc = "idle"
    /\ nEnq < MaxMsgs
    /\ topics_' = get_topic_topics(name)
    /\ topic_mapping_' = get_topic_mapping(name)
    /\ resolveOk' = IF cache_hit(name) THEN resolveOk
                    ELSE [resolveOk EXCEPT ![name] = @ + 1]
    /\ messages_' = Emplace(messages_, do_add_message_index,
                            [id |-> nEnq + 1, topic |-> get_topic_result(name)])
    /\ nEnq' = nEnq + 1
    /\ assignedIndex' = [assignedIndex EXCEPT ![nEnq + 1] = do_add_message_index]
    /\ lastReport' = NoReport
    /\ UNCHANGED <<failed_indexes_, current_index_, inflight, activation,
                   nFlush, submits, fails, acked, nQueueFull, nFatal, resolveFail,
                   perCall, perFlush>>

\* variant: the Topic slot is pushed before producer_.get_topic is called
add_message_resolve_error_after_push(name) ==
    /\ pc = "idle"
    /\ ~cache_hit(name)
    /\ SumOver(resolveFail, TopicNames) < MaxResolveFail
    /\ resolveFail' = [resolveFail EXCEPT ![name] = @ + 1]
    /\ topics_' = Append(topics_, name)
    /\ lastReport' = NoReport
    /\ UNCHANGED <<messages_, failed_indexes_, current_index_, topic_mapping_,
                   inflight, activation, nEnq, assignedIndex, nFlush, submits,
                   fails, acked, nQueueFull, nFatal, resolveOk, perCall, perFlush>>

\* add_message(builder) when producer_.get_topic throws: the exception leaves
\* get_topic before push_back and do_add_message before emplace
add_message_resolve_error(name) ==
    /\ pc = "idle"
    /\ ~cache_hit(name)
    /\ SumOver(resolveFail, TopicNames) < MaxResolveFail
    /\ resolveFail' = [resolveFail EXCEPT ![name] = @ + 1]
    /\ lastReport' = NoReport
    /\ UNCHANGED <<fields, inflight, activation, nEnq, assignedIndex, nFlush, submits, fails,
                   acked, nQueueFull, nFatal, resolveOk, perCall, perFlush>>

\* ------------------------------------------------------------------ flush
\* flush() is entered: the range-for takes messages_.begin()
flush_begin ==
    /\ pc = "idle"
    /\ nFlush < MaxFlush
    /\ nFlush' = nFlush + 1
    /\ pc' = "for_messages"
    /\ it' = Begin(messages_)
    /\ result' = "running"
    /\ entryKeys' = Keys(messages_)
    /\ attempted' = {}
    /\ okTokens' = {}
    /\ pendingRetry' = {}
    /\ flushClean' = TRUE
    /\ ctx' = "none"
    /\ cur_index' = 0
    /\ local_builder' = NoBuilder
    /\ callAttempts' = 0
    /\ callPolls' = 0
    /\ lastReport' = NoReport
    /\ UNCHANGED <<fields, inflight, fi, fend, dangling, nEnq, assignedIndex, submits, fails, acked,
                   nQueueFull, nFatal, resolveOk, resolveFail>>

\* produce_message has returned: its parameters and locals are gone
call_ended ==
    /\ cur_index' = 0
    /\ local_builder' = NoBuilder
    /\ callAttempts' = 0
    /\ callPolls' = 0

\* "for (auto& message_pair : messages_)": the loop test, and the call of
\* produce_message(message_pair.first, message_pair.second), which copies the
\* Builder into its local_builder before the first produce()
for_messages ==
    /\ pc = "for_messages"
    /\ IF it = END
       THEN /\ pc' = "while"
            /\ UNCHANGED <<ctx, cur_index, local_builder, perCall>>
       ELSE /\ pc' = "produce"
            /\ ctx' = "init"
            /\ cur_index' = it
            /\ local_builder' = messages_[it]
            /\ callAttempts' = 0
            /\ callPolls' = 0
    /\ lastReport' = NoReport
    /\ UNCHANGED <<fields, inflight, it, fi, fend, dangling, result, counters,
                   perFlush>>

\* produce_message: producer_.produce(local_builder) returns; sent = true ends
\* the loop and the call returns to the range-for that made it
produce_accepted ==
    /\ pc = "produce"
    /\ inflight' = inflight (+) SetToBag({[index |-> cur_index, msg |-> local_builder]})
    /\ submits' = [submits EXCEPT ![local_builder.id] = @ + 1]
    /\ callAttempts' = callAttempts + 1
    /\ attempted' = attempted \cup {cur_index}
    /\ pendingRetry' = pendingRetry \ {cur_index}
    /\ flushClean' = flushClean
    /\ IF ctx = "init"
       THEN pc' = "for_increment" /\ fi' = fi
       ELSE pc' = "for_failed" /\ fi' = fi + 1
    /\ lastReport' = NoReport
    /\ UNCHANGED <<fields, it, fend, dangling, ctx, cur_index, local_builder, result,
                   nEnq, assignedIndex, nFlush, fails, acked, nQueueFull, nFatal, resolveOk,
                   resolveFail, callPolls, entryKeys, okTokens>>

\* variant: the catch block retries without calling poll()
produce_queue_full_no_poll ==
    /\ pc = "produce"
    /\ nQueueFull < MaxQueueFull
    /\ nQueueFull' = nQueueFull + 1
    /\ callAttempts' = callAttempts + 1
    /\ attempted' = attempted \cup {cur_index}
    /\ pendingRetry' = pendingRetry \ {cur_index}
    /\ flushClean' = FALSE
    /\ pc' = "produce"
    /\ lastReport' = NoReport
    /\ UNCHANGED <<fields, inflight, it, fi, fend, dangling, ctx, cur_index,
                   local_builder, result, nEnq, assignedIndex, nFlush, submits, fails, acked,
                   nFatal, resolveOk, resolveFail, callPolls, entryKeys, okTokens>>

\* produce_message: produce() throws RD_KAFKA_RESP_ERR__QUEUE_FULL; the catch
\* block calls producer_.poll() and the while (!sent) loop goes round
produce_queue_full ==
    /\ pc = "produce"
    /\ nQueueFull < MaxQueueFull
    /\ nQueueFull' = nQueueFull + 1
    /\ callAttempts' = callAttempts + 1
    /\ callPolls' = callPolls + 1
    /\ attempted' = attempted \cup {cur_index}
    /\ pendingRetry' = pendingRetry \ {cur_index}
    /\ flushClean' = FALSE
    /\ pc' = "produce_poll"
    /\ lastReport' = NoReport
    /\ UNCHANGED <<fields, inflight, it, fi, fend, dangling, ctx, cur_index,
                   local_builder, result, nEnq, assignedIndex, nFlush, submits, fails, acked,
                   nFatal, resolveOk, resolveFail, entryKeys, okTokens>>

\* variant: the exception is swallowed and the calling loop goes on
produce_error_swallowed ==
    /\ pc = "produce"
    /\ nFatal < MaxFatal
    /\ nFatal' = nFatal + 1
    /\ callAttempts' = callAttempts + 1
    /\ attempted' = attempted \cup {cur_index}
    /\ pendingRetry' = pendingRetry \ {cur_index}
    /\ flushClean' = FALSE
    /\ IF ctx = "init"
       THEN pc' = "for_increment" /\ fi' = fi
       ELSE pc' = "for_failed" /\ fi' = fi + 1
    /\ lastReport' = NoReport
    /\ UNCHANGED <<fields, inflight, it, fend, dangling, ctx, cur_index,
                   local_builder, result, nEnq, assignedIndex, nFlush, submits, fails, acked,
                   nQueueFull, resolveOk, resolveFail, callPolls, entryKeys,
                   okTokens>>

\* produce_message: produce() throws another HandleException; "throw;" takes
\* it out of produce_message and out of flush, whose locals die
produce_error ==
    /\ pc = "produce"
    /\ nFatal < MaxFatal
    /\ nFatal' = nFatal + 1
    /\ callAttempts' = callAttempts + 1
    /\ attempted' = attempted \cup {cur_index}
    /\ pendingRetry' = pendingRetry \ {cur_index}
    /\ flushClean' = FALSE
    /\ pc' = "idle"
    /\ result' = "handle_error"
    /\ it' = END
    /\ fi' = 1
    /\ fend' = 0
    /\ dangling' = FALSE
    /\ lastReport' = NoReport
    /\ UNCHANGED <<fields, inflight, ctx, cur_index, local_builder, nEnq, assignedIndex, nFlush,
                   submits, fails, acked, nQueueFull, resolveOk, resolveFail,
                   callPolls, entryKeys, okTokens>>

\* the poll() of the catch block returns
produce_poll_return ==
    /\ pc = "produce_poll"
    /\ pc' = "produce"
    /\ lastReport' = NoReport
    /\ UNCHANGED <<fields, inflight, it, fi, fend, dangling, ctx, cur_index,
                   local_builder, result, counters, perCall, perFlush>>

\* ++ of the range-for over messages_, the element under the iterator still
\* being in the map
for_increment ==
    /\ pc = "for_increment"
    /\ it \in Keys(messages_)
    /\ it' = Succ(messages_, it)
    /\ pc' = "for_messages"
    /\ call_ended
    /\ lastReport' = NoReport
    /\ UNCHANGED <<fields, inflight, fi, fend, dangling, ctx, result, counters,
                   perFlush>>

\* ++ of the range-for over messages_ after on_delivery_report erased the
\* element under the iterator (a report for its token arrived in the poll()
\* of produce_message's catch block).  Incrementing an invalidated iterator
\* is undefined: the loop goes on at any element, ends, or the process dies.
for_increment_invalidated ==
    /\ pc = "for_increment"
    /\ it \notin Keys(messages_)
    /\ \/ /\ it' \in Keys(messages_) \cup {END}
          /\ pc' = "for_messages"
       \/ /\ it' = END
          /\ pc' = "crashed"
    /\ call_ended
    /\ lastReport' = NoReport
    /\ UNCHANGED <<fields, inflight, fi, fend, dangling, ctx, result, counters,
                   perFlush>>

\* variant: the loop condition tests the failed list instead of the table
while_test_until_no_failures ==
    /\ pc = "while"
    /\ IF failed_indexes_ = <<>>
       THEN /\ pc' = "idle"
            /\ result' = "returned"
       ELSE /\ pc' = "poll"
            /\ result' = result
    /\ lastReport' = NoReport
    /\ UNCHANGED <<fields, inflight, it, fi, fend, dangling, ctx, cur_index,
                   local_builder, counters, perCall, perFlush>>

\* "while (!messages_.empty())": flush returns, or calls producer_.poll()
while_test ==
    /\ pc = "while"
    /\ IF Keys(messages_) = {}
       THEN /\ pc' = "idle"
            /\ result' = "returned"
       ELSE /\ pc' = "poll"
            /\ result' = result
    /\ lastReport' = NoReport
    /\ UNCHANGED <<fields, inflight, it, fi, fend, dangling, ctx, cur_index,
                   local_builder, counters, perCall, perFlush>>

\* variant: the test of message.get_error() is inverted
on_delivery_report_inverted(index, error) ==
    IF index \notin Keys(messages_)
    THEN UNCHANGED <<messages_, failed_indexes_>>
    ELSE IF ~error
         THEN /\ failed_indexes_' = Append(failed_indexes_, index)
              /\ UNCHANGED messages_
         ELSE /\ messages_' = Erase(messages_, index)
              /\ UNCHANGED failed_indexes_

\* variant: a failed delivery erases the entry as well
on_delivery_report_erase_always(index, error) ==
    IF index \notin Keys(messages_)
    THEN UNCHANGED <<messages_, failed_indexes_>>
    ELSE /\ messages_' = Erase(messages_, index)
         /\ failed_indexes_' = IF error THEN Append(failed_indexes_, index)
                                ELSE failed_indexes_

\* variant: no test of find()'s result before the index is recorded
on_delivery_report_unchecked(index, error) ==
    IF error
    THEN /\ failed_indexes_' = Append(failed_indexes_, index)
         /\ UNCHANGED messages_
    ELSE /\ messages_' = Erase(messages_, index)
         /\ UNCHANGED failed_indexes_

\* variant: a successful report erases the entries up to its index
on_delivery_report_erase_upto(index, error) ==
    IF index \notin Keys(messages_)
    THEN UNCHANGED <<messages_, failed_indexes_>>
    ELSE IF error
         THEN /\ failed_indexes_' = Append(failed_indexes_, index)
              /\ UNCHANGED messages_
         ELSE /\ messages_' = [t \in {k \in Keys(messages_) : k > index} |-> messages_[t]]
              /\ UNCHANGED failed_indexes_

\* on_delivery_report(message): index is message.get_private_data(), error is
\* message.get_error()
on_delivery_report(index, error) ==
    IF index \notin Keys(messages_)
    THEN UNCHANGED <<messages_, failed_indexes_>>
    ELSE IF error
         THEN /\ failed_indexes_' = Append(failed_indexes_, index)
              /\ UNCHANGED messages_
         ELSE /\ messages_' = Erase(messages_, index)
              /\ UNCHANGED failed_indexes_

\* variant: the callback hands a failed message back to produce() itself
delivery_report_resubmits ==
    /\ pc \in {"poll", "produce_poll"}
    /\ \E sub \in BagToSet(inflight), error \in BOOLEAN :
         /\ error => SumOver(fails, MsgIds) < MaxDeliveryFail
         /\ inflight' = IF error /\ sub.index \in Keys(messages_) THEN inflight
                        ELSE inflight (-) SetToBag({sub})
         /\ submits' = IF error /\ sub.index \in Keys(messages_)
                       THEN [submits EXCEPT ![sub.msg.id] = @ + 1]
                       ELSE submits
         /\ IF error THEN UNCHANGED <<messages_, failed_indexes_>>
            ELSE on_delivery_report(sub.index, error)
         /\ fails' = IF error THEN [fails EXCEPT ![sub.msg.id] = @ + 1] ELSE fails
         /\ acked' = IF error THEN acked ELSE acked \cup {sub.msg.id}
         /\ okTokens' = IF error THEN okTokens ELSE okTokens \cup {sub.index}
         /\ pendingRetry' = IF error THEN pendingRetry ELSE pendingRetry \ {sub.index}
         /\ flushClean' = (flushClean /\ ~error)
         /\ lastReport' = [index |-> sub.index, id |-> sub.msg.id, error |-> error,
                           found |-> sub.index \in Keys(messages_)]
    /\ UNCHANGED <<current_index_, topics_, topic_mapping_, pc, it, fi, fend,
                   dangling, ctx, cur_index, local_builder, result, nEnq,
                   assignedIndex, nFlush, nQueueFull, nFatal, resolveOk,
                   resolveFail, perCall, entryKeys, attempted>>

\* inside producer_.poll() (flush's or produce_message's): the producer has
\* the outcome of one accepted message ready and calls the delivery report
\* callback with it.  A push_back made while flush's range-for over
\* failed_indexes_ is suspended in produce_message may reallocate the vector,
\* which invalidates that loop's iterators.
delivery_report ==
    /\ pc \in {"poll", "produce_poll"}
    /\ \E sub \in BagToSet(inflight), error \in BOOLEAN, realloc \in BOOLEAN :
         /\ error => SumOver(fails, MsgIds) < MaxDeliveryFail
         /\ realloc => /\ pc = "produce_poll"
                       /\ ctx = "retry"
                       /\ error
                       /\ sub.index \in Keys(messages_)
                       /\ ~dangling
         /\ inflight' = inflight (-) SetToBag({sub})
         /\ on_delivery_report(sub.index, error)
         /\ dangling' = (dangling \/ realloc)
         /\ fails' = IF error THEN [fails EXCEPT ![sub.msg.id] = @ + 1] ELSE fails
         /\ acked' = IF error THEN acked ELSE acked \cup {sub.msg.id}
         /\ okTokens' = IF error THEN okTokens ELSE okTokens \cup {sub.index}
         /\ pendingRetry' = IF sub.index \notin Keys(messages_) THEN pendingRetry
                            ELSE IF error THEN pendingRetry \cup {sub.index}
                            ELSE pendingRetry \ {sub.index}
         /\ flushClean' = (flushClean /\ ~error)
         /\ lastReport' = [index |-> sub.index, id |-> sub.msg.id, error |-> error,
                           found |-> sub.index \in Keys(messages_)]
    /\ UNCHANGED <<current_index_, topics_, topic_mapping_, pc, it, fi, fend, ctx,
                   cur_index, local_builder, result, nEnq, assignedIndex, nFlush, submits,
                   nQueueFull, nFatal, resolveOk, resolveFail, perCall, entryKeys,
                   attempted>>

\* flush's producer_.poll() returns; "if (!failed_indexes_.empty())" and the
\* range-for over failed_indexes_ take begin() and end()
poll_return ==
    /\ pc = "poll"
    /\ pc' = "for_failed"
    /\ fi' = 1
    /\ fend' = Len(failed_indexes_)
    /\ dangling' = FALSE
    /\ lastReport' = NoReport
    /\ UNCHANGED <<fields, inflight, it, ctx, cur_index, local_builder, result,
                   counters, perCall, perFlush>>

\* what "index" reads through the range-for's iterator: the element, or,
\* after a reallocation, whatever the freed storage holds
failed_index_read ==
    IF dangling THEN Tokens ELSE {failed_indexes_[fi]}

\* "for (const IndexType index : failed_indexes_)": the loop test against the
\* end() taken at loop entry; past it, failed_indexes_.clear(); otherwise
\* messages_.at(index), which throws std::out_of_range for an absent key, and
\* the call of produce_message(index, messages_.at(index)).  The read
\* through an invalidated iterator can also end the process.
for_failed ==
    /\ pc = "for_failed"
    /\ IF fi > fend
       THEN /\ failed_indexes_' = <<>>
            /\ pc' = "while"
            /\ fi' = 1
            /\ fend' = 0
            /\ dangling' = FALSE
            /\ call_ended
            /\ UNCHANGED <<it, ctx, result>>
       ELSE \E index \in failed_index_read :
              IF index \notin Keys(messages_)
              THEN /\ pc' = "idle"
                   /\ result' = "out_of_range"
                   /\ it' = END
                   /\ fi' = 1
                   /\ fend' = 0
                   /\ dangling' = FALSE
                   /\ call_ended
                   /\ UNCHANGED <<failed_indexes_, ctx>>
              ELSE \/ /\ pc' = "produce"
                      /\ ctx' = "retry"
                      /\ cur_index' = index
                      /\ local_builder' = messages_[index]
                      /\ callAttempts' = 0
                      /\ callPolls' = 0
                      /\ UNCHANGED <<failed_indexes_, it, fi, fend, dangling,
                                     result>>
                   \/ /\ dangling
                      /\ pc' = "crashed"
                      /\ call_ended
                      /\ UNCHANGED <<failed_indexes_, it, fi, fend, dangling, ctx,
                                     result>>
    /\ lastReport' = NoReport
    /\ UNCHANGED <<messages_, current_index_, topics_, topic_mapping_, inflight,
                   counters, perFlush>>

Next ==
    \/ \E name \in FlushTopicNames : add_message(name)
    \/ \E name \in FlushTopicNames : add_message_resolve_error(name)
    \/ flush_begin
    \/ for_messages
    \/ produce_accepted
    \/ produce_queue_full
    \/ produce_error
    \/ produce_poll_return
    \/ for_increment
    \/ for_increment_invalidated
    \/ while_test
    \/ delivery_report
    \/ poll_return
    \/ for_failed

\* Every behaviour of one BufferedProducer whose caller calls add_message
\* and flush from one thread, with one topic name
Spec == Init /\ [][Next]_vars

\* The same with several topic names and a producer that accepts every
\* produce() call: the behaviours the topic cache is checked on
NextTopics ==
    \/ \E name \in TopicNames : add_message(name)
    \/ \E name \in TopicNames : add_message_resolve_error(name)
    \/ flush_begin
    \/ for_messages
    \/ produce_accepted
    \/ for_increment
    \/ while_test
    \/ delivery_report
    \/ poll_return
    \/ for_failed

TopicSpec == Init /\ [][NextTopics]_vars

\* Spec for a caller whose thread keeps running and a producer whose poll()
\* returns and which, polled again and again, reports every outcome it holds.
\* add_message and flush calls stay the caller's choice.
ThreadStep ==
    \/ for_messages
    \/ produce_accepted
    \/ produce_queue_full
    \/ produce_error
    \/ for_increment
    \/ for_increment_invalidated
    \/ while_test
    \/ for_failed

PollReturns == poll_return \/ produce_poll_return

FairSpec ==
    /\ Init
    /\ [][Next]_vars
    /\ WF_vars(ThreadStep)
    /\ WF_vars(PollReturns)
    /\ SF_vars(delivery_report)

\* ================================================================ claims
NoRejection == nQueueFull = 0 /\ nFatal = 0
NoDeliveryFailure == SumOver(fails, MsgIds) = 0
Returned == pc = "idle" /\ result = "returned"

\* C1: on a fresh buffer, add_message calls followed by one flush, with a
\* producer that accepts every produce() and reports success for each: no
\* message is handed to produce() a second time, and when flush has returned
\* messages_ is empty.  (entryKeys has nEnq keys exactly when every
\* add_message preceded the flush.)
C1_FlushDrainsEachOnce ==
    (nFlush <= 1 /\ NoRejection /\ NoDeliveryFailure)
        => /\ \A m \in MsgIds : submits[m] <= 1
           /\ (Returned /\ Cardinality(entryKeys) = nEnq) => Keys(messages_) = {}

C1_Witness ==
    /\ Returned
    /\ nFlush = 1
    /\ NoRejection
    /\ NoDeliveryFailure
    /\ nEnq = MaxMsgs
    /\ Cardinality(entryKeys) = nEnq
    /\ \A m \in MsgIds : submits[m] = 1 /\ m \in acked

\* C2: a step in which flush returns normally ends with messages_ empty, and
\* every step that ends flush either is such a return or propagates an
\* exception to the caller.
C2_ReturnsOnlyWhenEmpty ==
    [][(pc # "idle" /\ pc' = "idle")
          => /\ result' \in {"returned", "handle_error", "out_of_range"}
             /\ result' = "returned" => Keys(messages_') = {}]_vars

C2_Witness ==
    /\ Returned
    /\ Keys(messages_) = {}
    /\ nEnq >= 2
    /\ ~NoDeliveryFailure
    /\ nQueueFull > 0

\* C3 (as claimed): an entry leaves messages_ only in a step that delivers a
\* successful report for a produce() of the message that entry holds.
C3_ErasedOnlyByOwnAck ==
    [][\A t \in Keys(messages_) :
          (t \notin Keys(messages_') \/ messages_'[t] # messages_[t])
              => /\ lastReport'.index = t
                 /\ ~lastReport'.error
                 /\ lastReport'.id = messages_[t].id]_vars

\* C4: a produce() answered queue-full never ends flush: the catch block is
\* inside poll() in the next state.  Within one produce_message call every
\* produce() is made after exactly as many poll() calls as produce() calls
\* before it, so a call whose first K produce() calls were answered
\* queue-full returns after K+1 produce() calls and K poll() calls.  As long
\* as no produce() is answered with another error and no delivery fails, no
\* message is accepted by produce() twice (one produce_message call for each
\* message), and every flush returns.
C4_QueueFullAbsorbed ==
    /\ [][nQueueFull' > nQueueFull => pc' = "produce_poll" /\ result' = result]_vars
    /\ [][callAttempts' = callAttempts + 1 => callPolls = callAttempts]_vars
    /\ [](/\ pc \in {"produce", "produce_poll"} => callAttempts = callPolls
          /\ (pc \in {"for_increment", "for_failed"} /\ callAttempts > 0)
                => callAttempts = callPolls + 1)
    /\ []((nFatal = 0 /\ NoDeliveryFailure) => \A m \in MsgIds : submits[m] <= 1)
    /\ [](pc # "idle" => <>(Returned \/ nFatal > 0 \/ ~NoDeliveryFailure))

C4_Witness ==
    /\ pc = "for_increment"
    /\ nFlush = 1
    /\ callPolls = MaxQueueFull
    /\ callAttempts = MaxQueueFull + 1
    /\ submits[local_builder.id] = 1

\* the entry of messages_ that holds message m, if any
Holds(m) == {t \in Keys(messages_) : messages_[t].id = m}

\* C5: with a producer that accepts every produce(): a message is handed to
\* produce() again only after a failed delivery of it, once per failure (so
\* a message that failed once and then succeeded was produced twice), and
\* its entry stays in messages_ until a delivery of it succeeds.
C5_ResubmittedOncePerFailure ==
    NoRejection
        => \A m \in 1..nEnq :
             /\ submits[m] <= fails[m] + 1
             /\ m \in acked => submits[m] = fails[m] + 1
             /\ m \notin acked => Holds(m) # {}

C5_Witness ==
    /\ NoRejection
    /\ \E m \in 1..nEnq :
         /\ fails[m] = 1
         /\ m \in acked
         /\ submits[m] = 2
         /\ Holds(m) = {}

First(S) == Min(S)
Second(S) == Min(S \ {First(S)})
Third(S) == Min(S \ {First(S), Second(S)})

C7_UnknownTokenIgnored ==
    [][(lastReport'.index # END /\ ~lastReport'.found)
          => UNCHANGED <<messages_, failed_indexes_, pc, result>>]_vars

C7_Witness ==
    /\ lastReport.index # END
    /\ ~lastReport.found
    /\ lastReport.error
    /\ Keys(messages_) # {}

\* C8: producer_.get_topic returns at most once for each topic name; a name
\* is in topic_mapping_ exactly if it did; and once a name is in
\* topic_mapping_ no step calls producer_.get_topic for it or changes its
\* index or the Topic stored under it.
C8_ResolvedOncePerName ==
    /\ [](\A n \in TopicNames :
            /\ resolveOk[n] <= 1
            /\ n \in DOMAIN topic_mapping_ <=> resolveOk[n] = 1
            /\ n \in DOMAIN topic_mapping_ => topics_[topic_mapping_[n] + 1] = n)
    /\ [][\A n \in DOMAIN topic_mapping_ :
                 /\ n \in DOMAIN topic_mapping_'
                 /\ topic_mapping_'[n] = topic_mapping_[n]
                 /\ topics_'[topic_mapping_[n] + 1] = topics_[topic_mapping_[n] + 1]
                 /\ resolveOk'[n] = resolveOk[n]
                 /\ resolveFail'[n] = resolveFail[n]]_vars

C8_Witness ==
    /\ nEnq = 3
    /\ DOMAIN topic_mapping_ = TopicNames
    /\ \A n \in TopicNames : resolveOk[n] = 1
    /\ Cardinality({t \in Keys(messages_) : messages_[t].topic = "t1"}) = 2

\* C9: a step of add_message (one that takes a message, or one whose topic
\* resolution throws) hands nothing to produce(), delivers no report and
\* leaves the caller outside flush; and before the first flush nothing has
\* been handed to produce().
C9_AddMessageNeverProduces ==
    /\ [][(nEnq' # nEnq \/ resolveFail' # resolveFail)
            => /\ UNCHANGED <<inflight, submits, nQueueFull, nFatal, attempted,
                              perCall, fails, acked>>
               /\ lastReport' = NoReport
               /\ pc' = "idle"]_vars
    /\ [](nFlush = 0
            => /\ inflight = EmptyBag
               /\ nQueueFull = 0
               /\ nFatal = 0
               /\ \A m \in MsgIds : submits[m] = 0)

C9_Witness ==
    /\ Returned
    /\ Keys(messages_) # {}
    /\ inflight = EmptyBag
    /\ \E m \in 1..nEnq : submits[m] = 1 /\ m \in acked
    /\ \E m \in 1..nEnq : submits[m] = 0 /\ Holds(m) # {}

\* C10 (as claimed): every add_message call whose topic resolves adds one
\* entry, holding the message of that call, to messages_ and leaves the
\* entries already there as they were.
C10_AddMessageAddsOneEntry ==
    [][nEnq' = nEnq + 1
          => /\ Size(messages_') = Size(messages_) + 1
             /\ \E t \in Keys(messages_') \ Keys(messages_) :
                   messages_'[t].id = nEnq'
             /\ \A t \in Keys(messages_) :
                   t \in Keys(messages_') /\ messages_'[t] = messages_[t]]_vars

\* C11 (as claimed): the indexes do_add_message computes grow strictly from
\* one add_message call to the next, so no index is given to two messages.
C11_IndexStrictlyIncreasing ==
    \A m1 \in 1..nEnq, m2 \in 1..nEnq :
        m1 < m2 => assignedIndex[m1] < assignedIndex[m2]

\* C12: a step of add_message in which producer_.get_topic throws stages
\* nothing and leaves messages_, failed_indexes_, topics_ and topic_mapping_
\* (and what the producer holds) as they were.
C12_ResolveErrorChangesNothing ==
    [][resolveFail' # resolveFail
          => UNCHANGED <<messages_, failed_indexes_, current_index_, topics_,
                         topic_mapping_, inflight, nEnq, assignedIndex, pc>>]_vars

C12_Witness ==
    /\ resolveFail["t2"] = 1
    /\ resolveOk["t2"] = 0
    /\ "t2" \notin DOMAIN topic_mapping_
    /\ topics_ = <<"t1">>
    /\ Size(messages_) = 2

\* C13 (as claimed): with a producer that answers queue-full and reports
\* failures only finitely often, throws no other error and reports every
\* outcome, every flush call returns with messages_ empty.
C13_FlushTerminates ==
    [](pc # "idle" => <>((Returned /\ Keys(messages_) = {}) \/ nFatal > 0))

\* C14 (as claimed): the loop over failed_indexes_ passes over an index
\* that is no longer a key of messages_ without ending flush, and hands the
\* indexes that are keys to produce_message in the order of the list.
C14_AbsentFailedIndexSkipped ==
    /\ [][(/\ pc = "for_failed"
           /\ fi <= fend
           /\ ~dangling
           /\ failed_indexes_[fi] \notin Keys(messages_))
             => /\ pc' = "for_failed"
                /\ fi' = fi + 1
                /\ result' = result]_vars
    /\ [][(pc = "for_failed" /\ pc' = "produce" /\ ~dangling)
             => cur_index' = failed_indexes_[fi]]_vars

\* C15 (as claimed): when failed_indexes_.clear() runs, every index that a
\* failed delivery recorded in this flush has been handed to produce() since
\* (or its entry is gone); and a report of a failed delivery does not end
\* flush.
C15_FailureRetriedBeforeClear ==
    /\ [][(pc = "for_failed" /\ pc' = "while") => pendingRetry = {}]_vars
    /\ [][lastReport'.error => (pc' = pc /\ result' = result)]_vars

\* C16: a delivery report whose token is a key of messages_ erases that
\* entry and nothing else if it is successful, and appends the token to
\* failed_indexes_ and leaves messages_ as it is if it carries an error;
\* it touches no other field.  Every other step leaves each entry of
\* messages_ in place with its Builder.
C16_EntryChangedOnlyByReport ==
    /\ [][(lastReport'.index # END /\ lastReport'.found)
             => /\ IF lastReport'.error
                   THEN /\ messages_' = messages_
                        /\ failed_indexes_' = Append(failed_indexes_, lastReport'.index)
                   ELSE /\ messages_' = Erase(messages_, lastReport'.index)
                        /\ failed_indexes_' = failed_indexes_
                /\ UNCHANGED <<current_index_, topics_, topic_mapping_>>]_vars
    /\ [][lastReport'.index = END
             => \A t \in Keys(messages_) :
                   t \in Keys(messages_') /\ messages_'[t] = messages_[t]]_vars

C16_Witness ==
    /\ lastReport.index # END
    /\ lastReport.found
    /\ ~lastReport.error
    /\ lastReport.index \notin Keys(messages_)
    /\ \E t \in Keys(messages_) : t < lastReport.index
    /\ failed_indexes_ # <<>>

\* C17 (as claimed): whenever flush's first loop is at its test, the entry
\* it is about to hand to produce_message has a larger token than every
\* token handed to produce() in this flush (increasing order, none twice),
\* and when the loop is over every key messages_ had at flush entry has
\* been handed to produce() (none skipped).
C17_InitialPassOnceInOrder ==
    pc = "for_messages"
        => IF it # END
           THEN \A t \in attempted : t < it
           ELSE attempted = entryKeys

\* C18: while the thread is inside producer_.poll() (flush's or the one in
\* produce_message's catch block) no produce() call is made: nothing is
\* added to what the producer holds and no attempt is counted; a delivery
\* report happens only there and touches no field but messages_ and
\* failed_indexes_; and every produce() call is made from produce_message's
\* try block, outside poll().
C18_NoProduceInsidePoll ==
    /\ [][(pc = "poll" \/ pc = "produce_poll")
             => /\ inflight' \sqsubseteq inflight
                /\ UNCHANGED <<submits, nQueueFull, nFatal, callAttempts,
                               attempted>>]_vars
    /\ [][lastReport'.index # END
             => /\ pc \in {"poll", "produce_poll"}
                /\ UNCHANGED <<current_index_, topics_, topic_mapping_, pc>>]_vars
    /\ [][(\/ submits' # submits
           \/ nQueueFull' # nQueueFull
           \/ nFatal' # nFatal) => pc = "produce"]_vars

C18_Witness ==
    /\ pc = "produce_poll"
    /\ lastReport.index # END
    /\ lastReport.error
    /\ lastReport.found
    /\ failed_indexes_ # <<>>
    /\ \A sub \in BagToSet(inflight) : sub.index # lastReport.index

\* C19 (as claimed): a flush called after a flush that a produce() error
\* aborted, in which every produce() is accepted and every report is a
\* success, ends only by returning, with messages_ empty and every entry
\* that was pending at its entry handed to produce().
C19_RetryFlushDrains ==
    [][(pc # "idle" /\ pc' = "idle" /\ flushClean' /\ nFatal > 0)
          => /\ result' = "returned"
             /\ Keys(messages_') = {}
             /\ entryKeys \subseteq attempted']_vars

\* C20 (as claimed): whenever the caller is outside flush (before a flush
\* call, after it returned, after it threw) failed_indexes_ is empty.
C20_FailedIndexesEmptyOutsideFlush ==
    pc = "idle" => failed_indexes_ = <<>>
====
